---- MODULE Spec2Model ----
(***************************************************************************)
(* Obstacle-avoidance controller of the Raspbot (auto_driver.py) on top of *)
(* the motor/sensor driver (car_driver.py).                                *)
(*                                                                         *)
(* Time is counted in milliseconds: the 0.5 s and 0.4 s dwell literals of  *)
(* step() are 500 and 400.  Distances are millimetres, as returned by      *)
(* CarDriver.get_distance().                                               *)
(***************************************************************************)
EXTENDS Integers, Sequences, FiniteSets, TLC

(***************************************************************************)
(* Bounds of the model.                                                    *)
(***************************************************************************)
\* The clock is not read past this value (ms since the program started).
MaxClock == 1000

\* Iterations of the driving loop that are followed.
MaxLoops == 3

\* Frames the camera delivers.
MaxFrames == 3

\* Time that can pass between two successive step() calls.  The driving loop
\* sleeps between iterations, so the clock always moves between two calls.
Deltas == {50, 350, 450}

\* Combined 16-bit values the two sonar registers are made to hold.
Distances == {0, 299, 300, 500, 501, 4500, 65535}

\* How far the wall clock can be off the time that really passed, in ms, after
\* it was set (an NTP correction, a manual date change); 0 is a clock never set.
ClockSkews == {0 - 300, 0, 300}

\* Arguments of direct set_speed() calls, and of change_speed() (the driving
\* loop passes 20 and -20).
SpeedArgs == {0 - 5, 0, 40, 255, 256, 9999}
DeltaArgs == {0 - 20, 20, 300}

(***************************************************************************)
(* Program constants.                                                      *)
(***************************************************************************)
NEAR_DISTANCE == 300
FAR_DISTANCE == 500
DEFAULT_SPEED == 40
\* Readings above this are treated as bad readings by step().
MAX_GOOD_DISTANCE == 4500
\* Dwell literals of step(), in ms.
BACKUP_DURATION == 500
TURN_DURATION == 400
\* CarDriver.__init__: self.speed = 100
INITIAL_SPEED == 100
MAX_SPEED == 255
\* range(3) in get_distance
RETRIES == 3

\* len(self.light_colors)
NUM_COLORS == 7
\* read_code: 255 is idle / no data
IR_IDLE == 255
\* _capture_loop: if self.dropped_frames > 10
RECONNECT_AFTER == 10
\* main: car.change_speed(20), car.change_speed(-20)
SPEED_STEP == 20

(***************************************************************************)
(* Constants that exist in the design document only.                       *)
(***************************************************************************)
SENSOR_POLL_INTERVAL == 100
HISTORY_SIZE == 3

\* Marker for "get_distance() was not called".
NoRead == 0 - 1
\* Marker for "fewer than two polls since start()".
NoGap == 0 - 1

(***************************************************************************)
(* CarDriver: pure parts.                                                  *)
(***************************************************************************)
Min2(a, b) == IF a < b THEN a ELSE b
Max2(a, b) == IF a > b THEN a ELSE b

\* Variant: the lower clamp is missing.
set_speed_NoFloor(s) == Min2(MAX_SPEED, s)

\* set_speed: self.speed = max(0, min(255, speed))
set_speed(s) == Max2(0, Min2(MAX_SPEED, s))

\* change_speed: self.set_speed(self.speed + delta)
change_speed(current, delta) == set_speed(current + delta)

\* One bot.Ctrl_Car(motor_id, motor_dir, motor_speed) call.  Motors 0, 1 are
\* the left front and rear wheels, 2, 3 the right ones; direction 0 is forward.
Ctrl_Car(id, dir, s) == [id |-> id, dir |-> dir, speed |-> s]

\* Variants of the motor methods below with one plausible slip each.
car_stop_ThreeWheels == [i \in 1..3 |-> Ctrl_Car(i - 1, 0, 0)]

slide_left_FrontRearSwapped(s) ==
    <<Ctrl_Car(0, 0, s), Ctrl_Car(1, 1, s), Ctrl_Car(2, 1, s), Ctrl_Car(3, 0, s)>>

rotate_right_Diagonal(s) ==
    <<Ctrl_Car(0, 0, s), Ctrl_Car(1, 1, s), Ctrl_Car(2, 1, s), Ctrl_Car(3, 0, s)>>

\* Variant: high and low byte exchanged.
Combine_Swapped(hb, lb) == lb * 256 + hb

\* The Ctrl_Car calls of each CarDriver motor method, in order.
car_stop == [i \in 1..4 |-> Ctrl_Car(i - 1, 0, 0)]

move_forward(s) ==
    <<Ctrl_Car(0, 0, s), Ctrl_Car(1, 0, s), Ctrl_Car(2, 0, s), Ctrl_Car(3, 0, s)>>

move_backward(s) ==
    <<Ctrl_Car(0, 1, s), Ctrl_Car(1, 1, s), Ctrl_Car(2, 1, s), Ctrl_Car(3, 1, s)>>

slide_left(s) ==
    <<Ctrl_Car(0, 1, s), Ctrl_Car(1, 0, s), Ctrl_Car(2, 0, s), Ctrl_Car(3, 1, s)>>

slide_right(s) ==
    <<Ctrl_Car(0, 0, s), Ctrl_Car(1, 1, s), Ctrl_Car(2, 1, s), Ctrl_Car(3, 0, s)>>

rotate_left(s) ==
    <<Ctrl_Car(0, 1, s), Ctrl_Car(1, 1, s), Ctrl_Car(2, 0, s), Ctrl_Car(3, 0, s)>>

rotate_right(s) ==
    <<Ctrl_Car(0, 0, s), Ctrl_Car(1, 0, s), Ctrl_Car(2, 1, s), Ctrl_Car(3, 1, s)>>

CarMethods ==
    {"stop", "move_forward", "move_backward", "slide_left", "slide_right",
     "rotate_left", "rotate_right"}

\* The Ctrl_Car calls of the method of that name when self.speed is s.
CarWrites(name, s) ==
    CASE name = "stop" -> car_stop
      [] name = "move_forward" -> move_forward(s)
      [] name = "move_backward" -> move_backward(s)
      [] name = "slide_left" -> slide_left(s)
      [] name = "slide_right" -> slide_right(s)
      [] name = "rotate_left" -> rotate_left(s)
      [] name = "rotate_right" -> rotate_right(s)

\* The Ctrl_Car calls of several methods called one after the other.
RECURSIVE AllWrites(_, _)
AllWrites(names, s) ==
    IF names = <<>> THEN <<>>
    ELSE CarWrites(Head(names), s) \o AllWrites(Tail(names), s)

\* What each motor was last told, after the calls ws reached the board.
RECURSIVE ApplyWrites(_, _)
ApplyWrites(w, ws) ==
    IF ws = <<>> THEN w
    ELSE ApplyWrites(
            [w EXCEPT ![Head(ws).id] = [dir |-> Head(ws).dir, speed |-> Head(ws).speed]],
            Tail(ws))

Stopped == [i \in 0..3 |-> [dir |-> 0, speed |-> 0]]

\* One result of bot.read_data_array(reg, 1): an exception, or a list that is
\* empty or holds one byte.
Raised == [exc |-> TRUE, data |-> <<>>]
Empty == [exc |-> FALSE, data |-> <<>>]
Data(b) == [exc |-> FALSE, data |-> <<b>>]

\* The two register reads of one attempt: high byte (0x1b), low byte (0x1a).
Reads(d) == [h |-> Data(d \div 256), l |-> Data(d % 256)]

Attempts ==
    {Reads(d) : d \in Distances}
        \cup {[h |-> Raised, l |-> Data(44)],
              [h |-> Data(1), l |-> Raised],
              [h |-> Empty, l |-> Data(44)],
              [h |-> Data(1), l |-> Empty]}

\* What the bus answers to the (at most) three attempts of one get_distance().
Scripts == [1..RETRIES -> Attempts]

\* (diss_H << 8) | diss_L on two bytes
Combine(hb, lb) == hb * 256 + lb

\* The value one attempt yields, 0 when the attempt is retried: an exception in
\* either read, an empty list, or a combined value of 0.
AttemptValue(a) ==
    IF a.h.exc \/ a.l.exc THEN 0
    ELSE IF a.h.data = <<>> \/ a.l.data = <<>> THEN 0
    ELSE Combine(a.h.data[1], a.l.data[1])

RECURSIVE get_distance_from(_, _)
get_distance_from(script, i) ==
    IF i > RETRIES THEN 0
    ELSE IF AttemptValue(script[i]) > 0 THEN AttemptValue(script[i])
    ELSE get_distance_from(script, i + 1)

\* CarDriver.get_distance(): first attempt with a value > 0, else 0.
get_distance(script) == get_distance_from(script, 1)

\* Every value get_distance() returns on the scripts of the model.
SensorResults == {get_distance(s) : s \in Scripts}

(***************************************************************************)
(* ObstacleAvoidance: the tests of step().                                 *)
(***************************************************************************)
\* Variant: the two clock values subtracted the wrong way round.
BackupDone_Reversed(t, since) == since - t > BACKUP_DURATION

\* if current_time - self.state_start_time > 0.5
BackupDone(t, since) == t - since > BACKUP_DURATION

\* if current_time - self.state_start_time > 0.4
TurnDone(t, since) == t - since > TURN_DURATION

\* Variants of the tests below with one plausible slip each.
BadReading_AtLimit(d) == d = 0 \/ d >= MAX_GOOD_DISTANCE
BadReading_ZeroTrusted(d) == d > MAX_GOOD_DISTANCE
TooClose_Short(d) == d < NEAR_DISTANCE - 1
TooClose_Inclusive(d) == d <= NEAR_DISTANCE
Close_Wide(d) == d <= FAR_DISTANCE + 1
Evade_StopLast(maneuver) == <<maneuver, "stop">>

\* if dis == 0 or dis > 4500
BadReading(d) == d = 0 \/ d > MAX_GOOD_DISTANCE

\* if dis < self.NEAR_DISTANCE
TooClose(d) == d < NEAR_DISTANCE

\* elif dis <= self.FAR_DISTANCE
Close(d) == d <= FAR_DISTANCE

\* Variant: the evasive rotations turn right instead of left.
Evade_Mirrored(maneuver) ==
    <<"stop", IF maneuver = "rotate_left" THEN "rotate_right" ELSE maneuver>>

\* stop() followed by the evasive maneuver
Evade(maneuver) == <<"stop", maneuver>>

\* The samples the controller keeps from one step() to the next: none.  dis is
\* a local of step() and __init__ creates no history field.
DistanceHistory == <<>>

(***************************************************************************)
(* The smoothing the design document describes (not in the code): a window *)
(* of the last HISTORY_SIZE valid samples and its arithmetic mean.         *)
(***************************************************************************)
Push(w, d) ==
    IF Len(w) < HISTORY_SIZE THEN Append(w, d) ELSE Append(Tail(w), d)

RECURSIVE SumSeq(_)
SumSeq(w) == IF w = <<>> THEN 0 ELSE Head(w) + SumSeq(Tail(w))

Mean(w) == IF w = <<>> THEN 0 ELSE SumSeq(w) \div Len(w)

(***************************************************************************)
(* CarDriver.get_distance(): what one call does on the bus.                *)
(***************************************************************************)
\* Register reads of one attempt: the low byte is not read when the read of
\* the high byte raised.
ReadsOf(a) == IF a.h.exc THEN 1 ELSE 2

\* A read of the attempt raised.
Fails(a) == a.h.exc \/ a.l.exc

\* Variant: the try block covers the read of the high byte only.
Caught_HighOnly(a) == a.h.exc

\* The except clause covers both reads of the attempt.
Caught(a) == a.h.exc \/ a.l.exc

\* The loop of get_distance() from attempt i on, n register reads made so far.
RECURSIVE get_distance_run(_, _, _)
get_distance_run(script, i, n) ==
    IF i > RETRIES
    THEN [result |-> 0, attempts |-> RETRIES, reads |-> n, raised |-> FALSE]
    ELSE LET a == script[i]
             m == n + ReadsOf(a)
         IN  IF Fails(a) /\ ~Caught(a)
             THEN [result |-> NoRead, attempts |-> i, reads |-> m, raised |-> TRUE]
             ELSE IF AttemptValue(a) > 0
             THEN [result |-> AttemptValue(a), attempts |-> i, reads |-> m,
                   raised |-> FALSE]
             ELSE get_distance_run(script, i + 1, m)

\* No direct get_distance() call was made yet; script is what the bus will
\* answer to the reads of the call.
NoCall ==
    [script |-> <<>>, result |-> NoRead, attempts |-> 0, reads |-> 0,
     raised |-> FALSE]

(***************************************************************************)
(* State.                                                                  *)
(***************************************************************************)
VARIABLES
    running,            \* ObstacleAvoidance.running
    state,              \* ObstacleAvoidance.state
    state_start_time,   \* ObstacleAvoidance.state_start_time (ms)
    speed,              \* CarDriver.speed
    ultrasonic,         \* sensor switch register as last written
    current_time,       \* the clock at the latest step() call (ms)
    \* what the last operation did
    op,                 \* "init", "start", "stop" or "step"
    pre_state,          \* state when the last operation was entered
    dis,                \* what get_distance() returned to it, or NoRead
    cmds,               \* the CarDriver motor calls it made, in order
    \* observers
    last_poll,          \* clock of the latest get_distance() since start(), or NoRead
    poll_gap,           \* clock difference of the two latest polls, or NoGap
    window,             \* last HISTORY_SIZE valid samples since the state changed
    smoothed,           \* mean of the window if the last operation polled a valid sample, else 0
    all_clear,          \* every poll since start() returned FAR_DISTANCE + 1
    \* the motor board
    wheels,             \* what each motor 0..3 was last told: direction and speed
    writes,             \* the Ctrl_Car calls of the last operation, in order
    \* CarDriver methods called directly (manual keys, test scripts)
    call,               \* name of the last such call, "init" before the first
    prev_call,          \* name of the call before it
    requested,          \* the speed the last set_speed()/change_speed() asked for
    raised,             \* an exception left the last call
    sonar,              \* the direct get_distance() call: the bus script and what the call did
    light_index,        \* CarDriver.current_light_index
    \* the driving loop of remote_control_main.py
    mode,               \* "MANUAL" or "AUTO"
    loop_count,         \* iterations of the loop so far
    ir_enabled,         \* IRRemote.enabled
    ir_read,            \* the read_code() call of the last iteration
    key,                \* key name decoded in the last iteration, "none" if none
    dispatched,         \* CarDriver method the manual dispatch of that iteration called, "none" if none;
                        \* for a direct caller of CarDriver, the method it called last
    stepped,            \* that iteration called avoidance.step()
    loop_pc,            \* "read": at the top of the loop; "auto": at the mode test after the
                        \* dispatch; "cleanup": at the finally block; "exited": after it
    \* time as it passes, whatever the wall clock reads
    mono_time,          \* ms since the program started
    mono_since,         \* mono_time when the controller last entered BACKING_UP or TURNING
    \* CameraController
    cam                 \* the frame store, its lock and the two threads that use it

\* The controller and its clock.
ctl_vars == <<running, state, state_start_time, ultrasonic, current_time,
              op, pre_state, dis, cmds, last_poll, poll_gap, window, smoothed,
              all_clear>>

\* The record of the direct CarDriver calls.
call_vars == <<call, prev_call, requested, raised>>

\* The driving loop and the light it cycles.
remote_vars == <<light_index, mode, loop_count, ir_enabled, ir_read, key,
                 dispatched, stepped, loop_pc>>

clock_vars == <<mono_time, mono_since>>

vars == <<running, state, state_start_time, speed, ultrasonic, current_time,
          op, pre_state, dis, cmds, last_poll, poll_gap, window, smoothed,
          all_clear, wheels, writes, call, prev_call, requested, raised, sonar,
          light_index, mode, loop_count, ir_enabled, ir_read, key, dispatched,
          stepped, loop_pc, mono_time, mono_since, cam>>

States == {"IDLE", "FORWARD", "BACKING_UP", "TURNING"}

TypeOK ==
    /\ running \in BOOLEAN
    /\ state \in States
    /\ state_start_time \in 0..MaxClock
    /\ speed \in 0..MAX_SPEED
    /\ ultrasonic \in BOOLEAN
    /\ current_time \in 0..MaxClock
    /\ op \in {"init", "start", "stop", "step"}
    /\ pre_state \in States
    /\ dis \in SensorResults \cup {NoRead}
    /\ cmds \in Seq({"stop", "move_forward", "move_backward", "rotate_left"})
    /\ last_poll \in 0..MaxClock \cup {NoRead}
    /\ poll_gap \in 0..MaxClock \cup {NoGap}
    /\ Len(window) <= HISTORY_SIZE
    /\ smoothed \in Nat
    /\ all_clear \in BOOLEAN
    /\ DOMAIN wheels = 0..3
    /\ \A i \in 0..3 : wheels[i].dir \in {0, 1} /\ wheels[i].speed \in 0..MAX_SPEED
    /\ Len(writes) <= 8
    /\ call \in CarMethods \cup {"init", "set_speed", "change_speed"}
    /\ prev_call \in CarMethods \cup {"init", "set_speed", "change_speed"}
    /\ raised \in BOOLEAN
    /\ sonar.attempts \in 0..RETRIES

\* current_light_index when the lights are off.
LightsOff == 0 - 1

\* What read_code() returns for "no key": None.
NoCode == 0 - 1

\* No read_code() call was made yet.
NoIRRead == [answer |-> Empty, code |-> NoCode, reads |-> 0, raised |-> FALSE]

\* No frame: current_frame = None, and what read_frame() returns for it.
NoFrame == [buf |-> "none", pixels |-> 0]

\* CameraController(): nothing captured, no capture thread, the lock free.
\* capture and reader are the places of the capture thread and of a caller of
\* read_frame(); grabbed is the frame cap.read() handed to the capture thread,
\* returned what the last read_frame() gave back.  threads holds the place of
\* every capture thread started so far, capture_thread the number of the one
\* self.capture_thread refers to (0 for None), caller the place of the thread
\* that calls start_capture(), stop_capture() and close().
NewCamera ==
    [running |-> FALSE, lock |-> "free", current_frame |-> NoFrame,
     frame_count |-> 0, dropped_frames |-> 0, capture |-> "off",
     grabbed |-> NoFrame, reader |-> "idle", returned |-> NoFrame,
     is_opened |-> FALSE, capture_thread |-> 0, threads |-> <<>>,
     caller |-> "idle"]

\* Variant: the controller is constructed in FORWARD.
InitialState_Forward == "FORWARD"

\* __init__: self.state = 'IDLE'
InitialState == "IDLE"

\* CarDriver() then ObstacleAvoidance(car): motors stopped by the constructor.
InitCar ==
    /\ running = FALSE
    /\ state = InitialState
    /\ state_start_time = 0
    /\ speed = INITIAL_SPEED
    /\ ultrasonic = FALSE
    /\ current_time = 0
    /\ op = "init"
    /\ pre_state = "IDLE"
    /\ dis = NoRead
    /\ cmds = <<"stop">>
    /\ last_poll = NoRead
    /\ poll_gap = NoGap
    /\ window = <<>>
    /\ smoothed = 0
    /\ all_clear = TRUE
    /\ wheels = Stopped
    /\ writes = car_stop
    /\ call = "init"
    /\ prev_call = "init"
    /\ requested = INITIAL_SPEED
    /\ raised = FALSE
    /\ light_index = LightsOff

\* main() before its loop: IRRemote(bot) enabled the receiver.
InitRemote ==
    /\ mode = "MANUAL"
    /\ loop_count = 0
    /\ ir_enabled = TRUE
    /\ ir_read = NoIRRead
    /\ key = "none"
    /\ dispatched = "none"
    /\ stepped = FALSE
    /\ loop_pc = "read"

InitClock == mono_time = 0 /\ mono_since = 0

InitCamera == cam = NewCamera

Init == InitCar /\ sonar = NoCall /\ InitRemote /\ InitClock /\ InitCamera

\* What an operation of one part of the program leaves alone in the others.
LoopRests == UNCHANGED remote_vars
ClockRests == UNCHANGED clock_vars
CameraRests == UNCHANGED cam

\* The operation made the CarDriver motor calls cmds' with self.speed at s.
Drives(s) ==
    /\ writes' = AllWrites(cmds', s)
    /\ wheels' = ApplyWrites(wheels, writes')

(***************************************************************************)
(* ObstacleAvoidance.start()                                               *)
(***************************************************************************)
\* Variant: move_forward() called before set_speed().
start_advance_BeforeSpeed(old, new) == move_forward(old)

\* self.car.set_speed(self.DEFAULT_SPEED) comes before self.car.move_forward(),
\* which reads the speed just stored.
start_advance(old, new) == move_forward(new)

start ==
    /\ ultrasonic' = TRUE
    /\ speed' = set_speed(DEFAULT_SPEED)
    /\ running' = TRUE
    /\ state' = "FORWARD"
    /\ cmds' = <<"move_forward">>
    /\ writes' = start_advance(speed, speed')
    /\ wheels' = ApplyWrites(wheels, writes')
    /\ op' = "start"
    /\ pre_state' = state
    /\ dis' = NoRead
    /\ last_poll' = NoRead
    /\ poll_gap' = NoGap
    /\ window' = <<>>
    /\ smoothed' = 0
    /\ all_clear' = TRUE
    /\ UNCHANGED <<state_start_time, current_time, call_vars, sonar>>

(***************************************************************************)
(* ObstacleAvoidance.stop()                                                *)
(***************************************************************************)
\* Variant: the sensor is switched off but the motors are not stopped.
stop_NoMotorStop ==
    /\ running' = FALSE
    /\ ultrasonic' = FALSE
    /\ cmds' = <<>>
    /\ state' = "IDLE"
    /\ op' = "stop"
    /\ pre_state' = state
    /\ dis' = NoRead
    /\ window' = <<>>
    /\ smoothed' = 0
    /\ Drives(speed)
    /\ UNCHANGED <<state_start_time, speed, current_time, last_poll, poll_gap,
                   all_clear, call_vars, sonar>>

\* Variant: stop() puts back the speed the driver is constructed with.
stop_ResetsSpeed ==
    /\ running' = FALSE
    /\ ultrasonic' = FALSE
    /\ cmds' = <<"stop">>
    /\ state' = "IDLE"
    /\ op' = "stop"
    /\ pre_state' = state
    /\ dis' = NoRead
    /\ window' = <<>>
    /\ smoothed' = 0
    /\ speed' = INITIAL_SPEED
    /\ Drives(speed)
    /\ UNCHANGED <<state_start_time, current_time, last_poll, poll_gap,
                   all_clear, call_vars, sonar>>

\* Variant: stop() clears the running flag but leaves the state where it was.
stop_StateKept ==
    /\ running' = FALSE
    /\ ultrasonic' = FALSE
    /\ cmds' = <<"stop">>
    /\ state' = state
    /\ op' = "stop"
    /\ pre_state' = state
    /\ dis' = NoRead
    /\ window' = <<>>
    /\ smoothed' = 0
    /\ Drives(speed)
    /\ UNCHANGED <<state_start_time, speed, current_time, last_poll, poll_gap,
                   all_clear, call_vars, sonar>>

stop ==
    /\ running' = FALSE
    /\ ultrasonic' = FALSE
    /\ cmds' = <<"stop">>
    /\ state' = "IDLE"
    /\ op' = "stop"
    /\ pre_state' = state
    /\ dis' = NoRead
    /\ window' = <<>>
    /\ smoothed' = 0
    /\ Drives(speed)
    /\ UNCHANGED <<state_start_time, speed, current_time, last_poll, poll_gap,
                   all_clear, call_vars, sonar>>

(***************************************************************************)
(* ObstacleAvoidance.step(), called when the clock reads t; d is what      *)
(* get_distance() returns if step() calls it.                              *)
(***************************************************************************)
\* The observers of a step() that did not call get_distance().
NotPolled ==
    /\ smoothed' = 0
    /\ UNCHANGED <<last_poll, poll_gap, window, all_clear>>

\* Variant: a step() of a controller that is not running stops the motors.
StepNotRunning_Stops(t) ==
    /\ ~running
    /\ cmds' = <<"stop">>
    /\ dis' = NoRead
    /\ NotPolled
    /\ UNCHANGED <<running, state, state_start_time, speed, ultrasonic>>

\* if not self.running: return
StepNotRunning(t) ==
    /\ ~running
    /\ cmds' = <<>>
    /\ dis' = NoRead
    /\ NotPolled
    /\ UNCHANGED <<running, state, state_start_time, speed, ultrasonic>>

\* Variant: the sensor is read in the step() that ends the dwell.
StepBackingUp_Polls(t) ==
    /\ running
    /\ state = "BACKING_UP"
    /\ IF BackupDone(t, state_start_time)
       THEN cmds' = <<"stop">> /\ state' = "FORWARD" /\ dis' \in SensorResults
       ELSE cmds' = <<>> /\ state' = state /\ dis' = NoRead
    /\ NotPolled
    /\ UNCHANGED <<running, state_start_time, speed, ultrasonic>>

\* Variant: the step() that ends the dwell resumes the advance by itself.
StepBackingUp_Resumes(t) ==
    /\ running
    /\ state = "BACKING_UP"
    /\ IF BackupDone(t, state_start_time)
       THEN cmds' = <<"stop", "move_forward">> /\ state' = "FORWARD"
       ELSE cmds' = <<>> /\ state' = state
    /\ dis' = NoRead
    /\ NotPolled
    /\ UNCHANGED <<running, state_start_time, speed, ultrasonic>>

StepBackingUp(t) ==
    /\ running
    /\ state = "BACKING_UP"
    /\ IF BackupDone(t, state_start_time)
       THEN cmds' = <<"stop">> /\ state' = "FORWARD"
       ELSE cmds' = <<>> /\ state' = state
    /\ dis' = NoRead
    /\ NotPolled
    /\ UNCHANGED <<running, state_start_time, speed, ultrasonic>>

\* Variant: step() sleeps until the dwell is over, then ends it.
StepTurning_Waits(t) ==
    /\ running
    /\ state = "TURNING"
    /\ cmds' = <<"stop">>
    /\ state' = "FORWARD"
    /\ dis' = NoRead
    /\ NotPolled
    /\ UNCHANGED <<running, state_start_time, speed, ultrasonic>>

StepTurning(t) ==
    /\ running
    /\ state = "TURNING"
    /\ IF TurnDone(t, state_start_time)
       THEN cmds' = <<"stop">> /\ state' = "FORWARD"
       ELSE cmds' = <<>> /\ state' = state
    /\ dis' = NoRead
    /\ NotPolled
    /\ UNCHANGED <<running, state_start_time, speed, ultrasonic>>

\* The observers of a poll at clock t that returned d.
Polled(t, d, changes) ==
    /\ last_poll' = t
    /\ poll_gap' = IF last_poll = NoRead THEN NoGap ELSE t - last_poll
    /\ all_clear' = (all_clear /\ d = FAR_DISTANCE + 1)
    /\ smoothed' = IF d = 0 THEN 0 ELSE Mean(Push(window, d))
    /\ window' = IF changes THEN <<>>
                 ELSE IF d = 0 THEN window
                 ELSE Push(window, d)

StepForward(t, d) ==
    /\ running
    /\ state = "FORWARD"
    /\ dis' = d
    /\ IF BadReading(d)
       THEN /\ cmds' = <<"stop">>
            /\ UNCHANGED <<state, state_start_time>>
       ELSE IF TooClose(d)
       THEN /\ cmds' = Evade("move_backward")
            /\ state' = "BACKING_UP"
            /\ state_start_time' = t
       ELSE IF Close(d)
       THEN /\ cmds' = Evade("rotate_left")
            /\ state' = "TURNING"
            /\ state_start_time' = t
       ELSE /\ cmds' = <<"move_forward">>
            /\ UNCHANGED <<state, state_start_time>>
    /\ Polled(t, d, state' # state)
    /\ UNCHANGED <<running, speed, ultrasonic>>

\* A state other than the four named ones cannot occur; step() would fall
\* through its if/elif chain.
step(t, d) ==
    /\ current_time' = t
    /\ op' = "step"
    /\ pre_state' = state
    /\ \/ StepNotRunning(t)
       \/ StepBackingUp(t)
       \/ StepTurning(t)
       \/ StepForward(t, d)
    /\ Drives(speed)
    /\ UNCHANGED <<call_vars, sonar>>

Step ==
    \E delta \in Deltas :
        /\ current_time + delta <= MaxClock
        /\ \E d \in SensorResults : step(current_time + delta, d)

\* The controller driven by any caller.
Next ==
    \/ start /\ LoopRests /\ ClockRests /\ CameraRests
    \/ stop /\ LoopRests /\ ClockRests /\ CameraRests
    \/ Step /\ LoopRests /\ ClockRests /\ CameraRests

Spec == Init /\ [][Next]_vars

\* The driving loop calls step() in every iteration while the mode is AUTO, so
\* step() is called again as long as the clock of the model has room.
SpecLive ==
    /\ Init
    /\ [][Next]_vars
    /\ WF_vars(Step /\ LoopRests /\ ClockRests /\ CameraRests)

(***************************************************************************)
(* CarDriver methods called directly, as the manual keys of the driving    *)
(* loop do.  The Ctrl_Car call number fault raises (0: none does); the     *)
(* methods have no handler, so the exception leaves the call, and the      *)
(* caller, which has none either, makes no further call.                   *)
(***************************************************************************)
CarCall(name, fault) ==
    /\ ~raised
    /\ call' = name
    /\ prev_call' = call
    /\ writes' = IF fault = 0 THEN CarWrites(name, speed)
                 ELSE SubSeq(CarWrites(name, speed), 1, fault)
    /\ wheels' = IF fault = 0 THEN ApplyWrites(wheels, writes')
                 ELSE ApplyWrites(wheels, SubSeq(writes', 1, fault - 1))
    /\ raised' = (fault # 0)
    /\ UNCHANGED <<speed, requested, ctl_vars, sonar>>

SetSpeed(s) ==
    /\ ~raised
    /\ call' = "set_speed"
    /\ prev_call' = call
    /\ requested' = s
    /\ speed' = set_speed(s)
    /\ writes' = <<>>
    /\ UNCHANGED <<wheels, raised, ctl_vars, sonar>>

ChangeSpeed(delta) ==
    /\ ~raised
    /\ call' = "change_speed"
    /\ prev_call' = call
    /\ requested' = speed + delta
    /\ speed' = change_speed(speed, delta)
    /\ writes' = <<>>
    /\ UNCHANGED <<wheels, raised, ctl_vars, sonar>>

Drive == \E name \in CarMethods : CarCall(name, 0)

DriveOnBadBus == \E name \in CarMethods, fault \in 0..4 : CarCall(name, fault)

SetAnySpeed == \E s \in SpeedArgs : SetSpeed(s)

ChangeAnySpeed == \E delta \in DeltaArgs : ChangeSpeed(delta)

\* The bus takes every write.
NextDriver ==
    \/ Drive /\ LoopRests /\ ClockRests /\ CameraRests
    \/ SetAnySpeed /\ LoopRests /\ ClockRests /\ CameraRests
    \/ ChangeAnySpeed /\ LoopRests /\ ClockRests /\ CameraRests

SpecDriver == Init /\ [][NextDriver]_vars

\* A write to the bus can raise.
NextBadBus ==
    \/ DriveOnBadBus /\ LoopRests /\ ClockRests /\ CameraRests
    \/ SetAnySpeed /\ LoopRests /\ ClockRests /\ CameraRests

SpecBadBus == Init /\ [][NextBadBus]_vars

(***************************************************************************)
(* get_distance() called directly, as test_ultrasonic.py does, on a bus    *)
(* that answers the reads of the call as the script says.                  *)
(***************************************************************************)
Pending(script) == [NoCall EXCEPT !.script = script]

InitSonar ==
    /\ InitCar /\ InitRemote /\ InitClock /\ InitCamera
    /\ sonar \in {Pending(script) : script \in Scripts}

GetDistance ==
    /\ sonar.attempts = 0
    /\ sonar' = [script |-> sonar.script] @@ get_distance_run(sonar.script, 1, 0)
    /\ UNCHANGED <<speed, wheels, writes, call_vars, ctl_vars>>

NextSonar == GetDistance /\ LoopRests /\ ClockRests /\ CameraRests

SpecSonar == InitSonar /\ [][NextSonar]_vars

(***************************************************************************)
(* IRRemote (ir_decoder.py).                                               *)
(***************************************************************************)
\* Bytes the IR register is made to hold: the codes of the keys the loop
\* binds, of two it does not (One, Nine), one that is no key, and idle.
IRBytes == {0, 1, 2, 4, 5, 6, 8, 9, 10, 12, 13, 14, 16, 21, 26, 48, IR_IDLE}

\* What bot.read_data_array(0x0c, 1) can do.
IRAnswers == {Raised, Empty} \cup {Data(b) : b \in IRBytes}

\* Variant: the read is outside the try block.
IRCaught_Nothing(a) == FALSE

\* try: ... except Exception: pass
IRCaught(a) == a.exc

\* if code != 255
IRIdle(b) == b = IR_IDLE

\* IRRemote.read_code() when the bus answers a to its read.  code is what it
\* returns (NoCode for None), reads the register reads it made.
read_code(enabled, a) ==
    IF ~enabled
    THEN [answer |-> a, code |-> NoCode, reads |-> 0, raised |-> FALSE]
    ELSE IF a.exc
    THEN [answer |-> a, code |-> NoCode, reads |-> 1, raised |-> ~IRCaught(a)]
    ELSE IF a.data # <<>> /\ ~IRIdle(a.data[1])
    THEN [answer |-> a, code |-> a.data[1], reads |-> 1, raised |-> FALSE]
    ELSE [answer |-> a, code |-> NoCode, reads |-> 1, raised |-> FALSE]

\* IRRemote.get_key_name(code) over IR_KEYS; "none" for None.
get_key_name(code) ==
    CASE code = 0 -> "Power"
      [] code = 1 -> "Up"
      [] code = 2 -> "Light"
      [] code = 4 -> "Left"
      [] code = 5 -> "Sound"
      [] code = 6 -> "Right"
      [] code = 8 -> "Turn_Left"
      [] code = 9 -> "Down"
      [] code = 10 -> "Turn_Right"
      [] code = 12 -> "Plus"
      [] code = 13 -> "Zero"
      [] code = 14 -> "Minus"
      [] code = 16 -> "One"
      [] code = 21 -> "Five"
      [] code = 26 -> "Nine"
      [] OTHER -> "none"

\* cycle_lights(): the index after the call.
\* Variant: the index is compared with > instead of >=.
cycle_lights_OneMore(i) == IF i + 1 > NUM_COLORS THEN LightsOff ELSE i + 1

cycle_lights(i) == IF i + 1 >= NUM_COLORS THEN LightsOff ELSE i + 1

(***************************************************************************)
(* The driving loop of remote_control_main.py.  One iteration is two       *)
(* steps: the IR read with the dispatch of the key, then the mode test     *)
(* that calls avoidance.step().                                            *)
(***************************************************************************)
\* The CarDriver method the manual branch calls for a key.
ManualMethod(k) ==
    CASE k = "Up" -> "move_forward"
      [] k = "Down" -> "move_backward"
      [] k = "Left" -> "slide_left"
      [] k = "Right" -> "slide_right"
      [] k = "Turn_Left" -> "rotate_left"
      [] k = "Turn_Right" -> "rotate_right"
      [] k \in {"Power", "Five", "Zero"} -> "stop"
      [] k = "Light" -> "cycle_lights"
      [] k \in {"Plus", "Minus"} -> "change_speed"
      [] OTHER -> "none"

\* Variant: the manual branch is taken in either mode.
ManualAllowed_Always(m) == TRUE

\* if mode == 'MANUAL': (dispatch of a key)
ManualAllowed(m) == m = "MANUAL"

\* if mode == 'AUTO': avoidance.step()
AutoStep(m) == m = "AUTO"

\* Nothing of the car, the controller or the lights is touched.
NoCarCall ==
    UNCHANGED <<speed, wheels, writes, call_vars, ctl_vars, sonar, light_index>>

\* loop_count += 1; code = ir.read_code(); key = ir.get_key_name(code)
LoopRead(a) ==
    /\ loop_pc = "read"
    /\ loop_count < MaxLoops
    /\ loop_count' = loop_count + 1
    /\ ir_read' = read_code(ir_enabled, a)
    /\ key' = get_key_name(ir_read'.code)
    /\ UNCHANGED ir_enabled

\* Variant: the toggle key only ever switches the autonomous mode on.
LoopToggle_OneWay(a) ==
    /\ LoopRead(a)
    /\ key' = "Sound"
    /\ mode' = "AUTO" /\ start
    /\ dispatched' = "none"
    /\ stepped' = FALSE
    /\ loop_pc' = "read"
    /\ UNCHANGED light_index

\* Variant: back to MANUAL without controller.stop().
LoopToggle_NoStop(a) ==
    /\ LoopRead(a)
    /\ key' = "Sound"
    /\ IF mode = "MANUAL"
       THEN mode' = "AUTO" /\ start
       ELSE mode' = "MANUAL" /\ NoCarCall
    /\ dispatched' = "none"
    /\ stepped' = FALSE
    /\ loop_pc' = "read"
    /\ UNCHANGED light_index

\* if key == 'Sound': toggle the mode, start or stop the controller, continue
LoopToggle(a) ==
    /\ LoopRead(a)
    /\ key' = "Sound"
    /\ IF mode = "MANUAL"
       THEN mode' = "AUTO" /\ start
       ELSE mode' = "MANUAL" /\ stop
    /\ dispatched' = "none"
    /\ stepped' = FALSE
    /\ loop_pc' = "read"
    /\ UNCHANGED light_index

\* Any other key, or none: the manual branch calls the method bound to the
\* key; in AUTO the key is ignored.
LoopDispatch(a) ==
    /\ LoopRead(a)
    /\ key' # "Sound"
    /\ dispatched' = IF key' # "none" /\ ManualAllowed(mode)
                     THEN ManualMethod(key') ELSE "none"
    /\ CASE dispatched' \in CarMethods ->
                CarCall(dispatched', 0) /\ UNCHANGED light_index
         [] dispatched' = "change_speed" ->
                /\ ChangeSpeed(IF key' = "Plus" THEN SPEED_STEP ELSE 0 - SPEED_STEP)
                /\ UNCHANGED light_index
         [] dispatched' = "cycle_lights" ->
                /\ light_index' = cycle_lights(light_index)
                /\ UNCHANGED <<speed, wheels, writes, call_vars, ctl_vars, sonar>>
         [] OTHER -> NoCarCall
    /\ stepped' = FALSE
    /\ loop_pc' = "auto"
    /\ UNCHANGED mode

\* if mode == 'AUTO': avoidance.step(); then time.sleep(0.01)
LoopAuto ==
    /\ loop_pc = "auto"
    /\ loop_pc' = "read"
    /\ IF AutoStep(mode)
       THEN /\ stepped' = TRUE
            /\ \E delta \in Deltas :
                  /\ current_time + delta <= MaxClock
                  /\ \E d \in SensorResults : step(current_time + delta, d)
            /\ UNCHANGED light_index
       ELSE /\ stepped' = FALSE
            /\ NoCarCall
    /\ UNCHANGED <<mode, loop_count, ir_enabled, ir_read, key, dispatched>>

Toggle == \E a \in IRAnswers : LoopToggle(a)

Dispatch == \E a \in IRAnswers : LoopDispatch(a)

\* IRRemote(bot): enable() leaves enabled False when its bus write raises.
InitLoop ==
    /\ InitCar /\ sonar = NoCall /\ InitClock /\ InitCamera
    /\ mode = "MANUAL"
    /\ loop_count = 0
    /\ ir_enabled \in BOOLEAN
    /\ ir_read = NoIRRead
    /\ key = "none"
    /\ dispatched = "none"
    /\ stepped = FALSE
    /\ loop_pc = "read"

NextLoop ==
    \/ Toggle /\ ClockRests /\ CameraRests
    \/ Dispatch /\ ClockRests /\ CameraRests
    \/ LoopAuto /\ ClockRests /\ CameraRests

SpecLoop == InitLoop /\ [][NextLoop]_vars

(***************************************************************************)
(* Leaving the driving loop: "except KeyboardInterrupt" and "finally".     *)
(* The loop is left by a keyboard interrupt at any point, or by the        *)
(* exception of a bus write that no handler in the loop catches.           *)
(***************************************************************************)
\* The one bus operation of the finally block that raises, if any:
\* Ctrl_Ulatist_Switch(0) and Ctrl_Car of avoidance.stop(), Ctrl_Car of
\* car.stop(), Ctrl_WQ2812_ALL of car.lights_off(), Ctrl_IR_Switch(0) of
\* ir.disable().
CleanupFaults ==
    {"none", "sensor_switch", "controller_stop", "car_stop", "lights_off",
     "ir_switch"}

\* The calls of the finally block the exception of that operation prevents:
\* enable_ultrasonic() and disable() contain theirs.
Aborts(fault) ==
    CASE fault = "controller_stop" ->
            {"controller_stop", "car_stop", "lights_off", "ir_switch"}
      [] fault = "car_stop" -> {"car_stop", "lights_off", "ir_switch"}
      [] fault = "lights_off" -> {"lights_off", "ir_switch"}
      [] OTHER -> {fault} \ {"none"}

\* KeyboardInterrupt between two iterations or before the mode test.
Interrupt ==
    /\ loop_pc \in {"read", "auto"}
    /\ loop_pc' = "cleanup"
    /\ NoCarCall
    /\ UNCHANGED <<mode, loop_count, ir_enabled, ir_read, key, dispatched, stepped>>

\* The motor method the manual branch calls raises at its bus write number
\* fault; nothing in the loop catches it.
LoopDispatchRaises(a, fault) ==
    /\ LoopRead(a)
    /\ ManualAllowed(mode)
    /\ dispatched' = ManualMethod(key')
    /\ dispatched' \in CarMethods
    /\ CarCall(dispatched', fault)
    /\ stepped' = FALSE
    /\ loop_pc' = "cleanup"
    /\ UNCHANGED <<mode, light_index>>

\* avoidance.step() in Forward has read the sensor and its first motor call
\* raises at its first bus write.
LoopAutoRaises ==
    /\ loop_pc = "auto"
    /\ AutoStep(mode)
    /\ running /\ state = "FORWARD"
    /\ \E delta \in Deltas :
          /\ current_time + delta <= MaxClock
          /\ current_time' = current_time + delta
          /\ \E d \in SensorResults :
                dis' = d /\ Polled(current_time', d, FALSE)
    /\ op' = "step"
    /\ pre_state' = state
    /\ cmds' = <<>>
    /\ writes' = <<>>
    /\ raised' = TRUE
    /\ stepped' = TRUE
    /\ loop_pc' = "cleanup"
    /\ UNCHANGED <<running, state, state_start_time, speed, ultrasonic, wheels,
                   call, prev_call, requested, sonar, light_index, mode,
                   loop_count, ir_enabled, ir_read, key, dispatched>>

\* finally: avoidance.stop(); car.stop(); car.lights_off(); ir.disable()
Cleanup(fault) ==
    /\ loop_pc = "cleanup"
    /\ loop_pc' = "exited"
    \* avoidance.stop(): running = False; enable_ultrasonic(False);
    \* car.stop(); state = 'IDLE'
    /\ running' = FALSE
    /\ ultrasonic' = IF fault = "sensor_switch" THEN ultrasonic ELSE FALSE
    /\ state' = IF "controller_stop" \in Aborts(fault) THEN state ELSE "IDLE"
    /\ cmds' = IF "controller_stop" \in Aborts(fault) THEN <<>> ELSE <<"stop">>
    /\ op' = "stop"
    /\ pre_state' = state
    /\ dis' = NoRead
    /\ window' = <<>>
    /\ smoothed' = 0
    \* car.stop()
    /\ call' = IF "car_stop" \in Aborts(fault) THEN call ELSE "stop"
    /\ prev_call' = IF "car_stop" \in Aborts(fault) THEN prev_call ELSE call
    /\ writes' = IF "controller_stop" \in Aborts(fault) THEN <<>>
                 ELSE IF "car_stop" \in Aborts(fault) THEN car_stop
                 ELSE car_stop \o car_stop
    /\ wheels' = ApplyWrites(wheels, writes')
    /\ raised' = (Aborts(fault) \ {"sensor_switch", "ir_switch"} # {})
    \* car.lights_off()
    /\ light_index' = IF "lights_off" \in Aborts(fault) THEN light_index
                      ELSE LightsOff
    \* ir.disable()
    /\ ir_enabled' = IF "ir_switch" \in Aborts(fault) THEN ir_enabled ELSE FALSE
    /\ UNCHANGED <<state_start_time, speed, current_time, last_poll, poll_gap,
                   all_clear, requested, sonar, mode, loop_count, ir_read, key,
                   dispatched, stepped>>

DispatchRaises ==
    \E a \in IRAnswers, fault \in 1..4 : LoopDispatchRaises(a, fault)

CleanupRuns == \E fault \in CleanupFaults : Cleanup(fault)

NextExit ==
    \/ Toggle /\ ClockRests /\ CameraRests
    \/ Dispatch /\ ClockRests /\ CameraRests
    \/ LoopAuto /\ ClockRests /\ CameraRests
    \/ Interrupt /\ ClockRests /\ CameraRests
    \/ DispatchRaises /\ ClockRests /\ CameraRests
    \/ LoopAutoRaises /\ ClockRests /\ CameraRests
    \/ CleanupRuns /\ ClockRests /\ CameraRests

SpecExit == InitLoop /\ [][NextExit]_vars

(***************************************************************************)
(* The lights of CarDriver under a caller that makes any sequence of       *)
(* cycle_lights(), lights_off() and motor calls.                           *)
(***************************************************************************)
\* What a light method leaves alone.
LightRests ==
    UNCHANGED <<speed, wheels, writes, call_vars, ctl_vars, sonar, mode,
                loop_count, ir_enabled, ir_read, key, stepped, loop_pc>>

\* car.cycle_lights()
CycleLights ==
    /\ light_index' = cycle_lights(light_index)
    /\ dispatched' = "cycle_lights"
    /\ LightRests

\* car.lights_off()
LightsOffCall ==
    /\ light_index' = LightsOff
    /\ dispatched' = "lights_off"
    /\ LightRests

\* A motor call between two light calls.
DriveLit ==
    \E name \in CarMethods :
        /\ CarCall(name, 0)
        /\ dispatched' = name
        /\ UNCHANGED <<light_index, mode, loop_count, ir_enabled, ir_read, key,
                       stepped, loop_pc>>

NextLights ==
    \/ CycleLights /\ ClockRests /\ CameraRests
    \/ LightsOffCall /\ ClockRests /\ CameraRests
    \/ DriveLit /\ ClockRests /\ CameraRests

SpecLights == Init /\ [][NextLights]_vars

(***************************************************************************)
(* The controller on a wall clock that can be set.  step() reads           *)
(* time.time(), which follows the system clock: between two step() calls   *)
(* delta ms pass and the clock may be set, so that it is skew ms off.  The *)
(* clock is set at most once in a run.                                     *)
(***************************************************************************)
Evasive == {"BACKING_UP", "TURNING"}

\* The operation A, with the time of the entry into a dwell noted.
Timed(A) ==
    /\ A
    /\ mono_since' = IF state' \in Evasive /\ state' # state
                     THEN mono_time' ELSE mono_since

WallClockStart == Timed(start) /\ UNCHANGED mono_time

WallClockStop == Timed(stop) /\ UNCHANGED mono_time

WallClockStep ==
    \E delta \in Deltas, skew \in ClockSkews :
        /\ mono_time + delta <= MaxClock
        /\ mono_time' = mono_time + delta
        /\ current_time = mono_time \/ skew = current_time - mono_time
        /\ mono_time' + skew >= 0
        /\ mono_time' + skew <= MaxClock
        /\ \E d \in SensorResults : Timed(step(mono_time' + skew, d))

NextWallClock ==
    \/ WallClockStart /\ LoopRests /\ CameraRests
    \/ WallClockStop /\ LoopRests /\ CameraRests
    \/ WallClockStep /\ LoopRests /\ CameraRests

SpecWallClock == Init /\ [][NextWallClock]_vars

(***************************************************************************)
(* CameraController (camera_controller.py): the capture thread and a       *)
(* caller of read_frame(), one step per statement that touches shared      *)
(* state.  A frame is the buffer it lives in and its content; the k-th     *)
(* frame the camera delivers has content k.                                *)
(***************************************************************************)
\* The frame cap.read() returns after n frames were stored.
Frame(n) == [buf |-> "camera", pixels |-> n + 1]

\* frame.copy(): the same content in a buffer of its own.
Copy(f) == [buf |-> "copy", pixels |-> f.pixels]

\* Variant: the lock is taken without waiting for it.
LockFree_Ignored(l) == TRUE

\* with self.frame_lock: entered only when no thread holds the lock.
LockFree(l) == l = "free"

\* The rest of the program does nothing meanwhile.
CarRests == UNCHANGED <<speed, wheels, writes, call_vars, ctl_vars, sonar>>

\* start_capture(): the camera is open; a running capture is not started again.
\* The thread of an earlier capture has ended (stop_capture() joined it).
StartCapture ==
    /\ ~cam.running
    /\ cam.capture = "off"
    /\ cam' = [cam EXCEPT !.running = TRUE, !.capture = "loop"]

\* stop_capture(): self.running = False
StopCapture ==
    /\ cam.running
    /\ cam' = [cam EXCEPT !.running = FALSE]

\* while self.running: left when the flag is down
CaptureExit ==
    /\ cam.capture = "loop"
    /\ ~cam.running
    /\ cam' = [cam EXCEPT !.capture = "off"]

\* ret, frame = self.cap.read() with ret true
CaptureGrab ==
    /\ cam.capture = "loop"
    /\ cam.running
    /\ cam.frame_count < MaxFrames
    /\ cam' = [cam EXCEPT !.grabbed = Frame(cam.frame_count),
                          !.capture = "acquire"]

\* ... with ret false: the frame is dropped, the camera reopened after more
\* than RECONNECT_AFTER drops
CaptureDrop ==
    /\ cam.capture = "loop"
    /\ cam.running
    /\ cam' = [cam EXCEPT !.dropped_frames =
                              IF cam.dropped_frames + 1 > RECONNECT_AFTER
                              THEN 0 ELSE cam.dropped_frames + 1]

CaptureAcquire ==
    /\ cam.capture = "acquire"
    /\ LockFree(cam.lock)
    /\ cam' = [cam EXCEPT !.lock = "capture", !.capture = "store"]

\* self.current_frame = frame
CaptureStore ==
    /\ cam.capture = "store"
    /\ cam' = [cam EXCEPT !.current_frame = cam.grabbed, !.capture = "count"]

\* self.frame_count += 1
CaptureCount ==
    /\ cam.capture = "count"
    /\ cam' = [cam EXCEPT !.frame_count = cam.frame_count + 1,
                          !.capture = "release"]

CaptureRelease ==
    /\ cam.capture = "release"
    /\ cam' = [cam EXCEPT !.lock = "free", !.capture = "loop"]

\* read_frame() is called
ReadFrameCall ==
    /\ cam.reader = "idle"
    /\ cam' = [cam EXCEPT !.reader = "acquire"]

ReadFrameAcquire ==
    /\ cam.reader = "acquire"
    /\ LockFree(cam.lock)
    /\ cam' = [cam EXCEPT !.lock = "reader", !.reader = "copy"]

\* return self.current_frame.copy(), or None
ReadFrameCopy ==
    /\ cam.reader = "copy"
    /\ cam' = [cam EXCEPT !.returned = IF cam.current_frame = NoFrame
                                        THEN NoFrame
                                        ELSE Copy(cam.current_frame),
                          !.reader = "release"]

ReadFrameRelease ==
    /\ cam.reader = "release"
    /\ cam' = [cam EXCEPT !.lock = "free", !.reader = "idle"]

NextCamera ==
    \/ StartCapture /\ CarRests /\ LoopRests /\ ClockRests
    \/ StopCapture /\ CarRests /\ LoopRests /\ ClockRests
    \/ CaptureExit /\ CarRests /\ LoopRests /\ ClockRests
    \/ CaptureGrab /\ CarRests /\ LoopRests /\ ClockRests
    \/ CaptureDrop /\ CarRests /\ LoopRests /\ ClockRests
    \/ CaptureAcquire /\ CarRests /\ LoopRests /\ ClockRests
    \/ CaptureStore /\ CarRests /\ LoopRests /\ ClockRests
    \/ CaptureCount /\ CarRests /\ LoopRests /\ ClockRests
    \/ CaptureRelease /\ CarRests /\ LoopRests /\ ClockRests
    \/ ReadFrameCall /\ CarRests /\ LoopRests /\ ClockRests
    \/ ReadFrameAcquire /\ CarRests /\ LoopRests /\ ClockRests
    \/ ReadFrameCopy /\ CarRests /\ LoopRests /\ ClockRests
    \/ ReadFrameRelease /\ CarRests /\ LoopRests /\ ClockRests

SpecCamera == Init /\ [][NextCamera]_vars

(***************************************************************************)
(* The capture threads of CameraController.  A thread is at "test" (the    *)
(* while self.running test), in "body" (one iteration: cap.read(), the     *)
(* store or the reconnect, the sleeps) or "done".  The caller makes one    *)
(* call at a time; inside stop_capture() it waits in join(timeout=2.0).    *)
(***************************************************************************)
MaxThreads == 3

\* The capture threads that have not left _capture_loop.
Live == {i \in 1..Len(cam.threads) : cam.threads[i] # "done"}

\* start_capture(): open() if needed, which can fail; nothing more when a
\* capture is running; else raise the flag and start a new thread.
StartCaptureCall(opens) ==
    /\ cam.caller = "idle"
    /\ Len(cam.threads) < MaxThreads
    /\ IF ~cam.is_opened /\ ~opens
       THEN UNCHANGED cam
       ELSE IF cam.running
       THEN cam' = [cam EXCEPT !.is_opened = TRUE]
       ELSE cam' = [cam EXCEPT !.is_opened = TRUE,
                               !.running = TRUE,
                               !.threads = Append(cam.threads, "test"),
                               !.capture_thread = Len(cam.threads) + 1]

\* The first half of stop_capture(), on behalf of stop_capture() itself or
\* of close(): return if not running, else lower the flag and join.
StopCaptureBegin(join, after) ==
    IF ~cam.running
    THEN cam' = [cam EXCEPT !.caller = after]
    ELSE cam' = [cam EXCEPT !.running = FALSE,
                            !.caller = IF cam.capture_thread # 0 THEN join
                                       ELSE after]

StopCaptureCall ==
    /\ cam.caller = "idle"
    /\ cam.running
    /\ StopCaptureBegin("join", "idle")

\* close(): stop_capture(), then the release below
CloseCall ==
    /\ cam.caller = "idle"
    /\ StopCaptureBegin("close_join", "release")

\* self.capture_thread.join(timeout=2.0) returns because the thread has ended
\* (timed_out false) or because 2 s have passed with the thread still inside
\* an iteration; then self.capture_thread = None.
Join(timed_out) ==
    /\ cam.caller \in {"join", "close_join"}
    /\ cam.threads[cam.capture_thread] = IF timed_out THEN "body" ELSE "done"
    /\ cam' = [cam EXCEPT !.capture_thread = 0,
                          !.caller = IF cam.caller = "join" THEN "idle"
                                     ELSE "release"]

JoinReturns == \E timed_out \in BOOLEAN : Join(timed_out)

\* close() after stop_capture(): cap.release(); cap = None; is_opened = False
CloseRelease ==
    /\ cam.caller = "release"
    /\ cam' = [cam EXCEPT !.is_opened = FALSE, !.caller = "idle"]

\* while self.running:
ThreadTest(i) ==
    /\ cam.threads[i] = "test"
    /\ cam' = [cam EXCEPT !.threads[i] = IF cam.running THEN "body" ELSE "done"]

\* One iteration; an exception in it (cap is None after close()) is caught.
ThreadBody(i) ==
    /\ cam.threads[i] = "body"
    /\ cam' = [cam EXCEPT !.threads[i] = "test"]

StartCaptureAny == \E opens \in BOOLEAN : StartCaptureCall(opens)

ThreadTests == \E i \in 1..Len(cam.threads) : ThreadTest(i)

ThreadIterates == \E i \in 1..Len(cam.threads) : ThreadBody(i)

NextThreads ==
    \/ StartCaptureAny /\ CarRests /\ LoopRests /\ ClockRests
    \/ StopCaptureCall /\ CarRests /\ LoopRests /\ ClockRests
    \/ CloseCall /\ CarRests /\ LoopRests /\ ClockRests
    \/ JoinReturns /\ CarRests /\ LoopRests /\ ClockRests
    \/ CloseRelease /\ CarRests /\ LoopRests /\ ClockRests
    \/ ThreadTests /\ CarRests /\ LoopRests /\ ClockRests
    \/ ThreadIterates /\ CarRests /\ LoopRests /\ ClockRests

SpecThreads == Init /\ [][NextThreads]_vars

(***************************************************************************)
(* Properties.                                                             *)
(***************************************************************************)
Maneuvers == {"move_forward", "move_backward", "rotate_left"}

Issued(name) == \E i \in 1..Len(cmds) : cmds[i] = name

\* The last operation was a step() that called get_distance().
PolledStep == op = "step" /\ dis # NoRead

\* The last operation was a step() entered in the given state.
StepFrom(s) == op = "step" /\ pre_state = s

\* Time since the current state was entered, at the latest step().
Elapsed == current_time - state_start_time

\* C1: any two get_distance() calls made by step() in Forward are at least
\* SENSOR_POLL_INTERVAL apart on the clock.  (The code polls on every step().)
C1_PollsThrottled ==
    poll_gap # NoGap => poll_gap >= SENSOR_POLL_INTERVAL

\* C2: in Forward the decision of step() is taken on the mean of the last
\* HISTORY_SIZE valid samples: a mean below NEAR_DISTANCE backs up, and a mean
\* above FAR_DISTANCE keeps Forward whatever the latest single sample is.
\* (The code decides on the latest sample alone.)
C2_DecisionOnMean ==
    (PolledStep /\ dis > 0) =>
        /\ smoothed < NEAR_DISTANCE => state = "BACKING_UP"
        /\ smoothed > FAR_DISTANCE => state = "FORWARD"

\* C3 as stated: every non-zero sample above FAR_DISTANCE, up to 65535, makes
\* a step() in Forward issue advance() and stay in Forward.
C3_AdvanceAboveFar ==
    (PolledStep /\ dis > FAR_DISTANCE) =>
        state = "FORWARD" /\ cmds = <<"move_forward">>

\* C3 as amended: a sample above FAR_DISTANCE keeps Forward; it issues
\* advance() when it is at most 4500 mm, and stop() alone when it is above.
C3_AdvanceAboveFarUpToLimit ==
    (PolledStep /\ dis > FAR_DISTANCE) =>
        /\ state = "FORWARD"
        /\ dis <= MAX_GOOD_DISTANCE => cmds = <<"move_forward">>
        /\ dis > MAX_GOOD_DISTANCE => cmds = <<"stop">>

C3_Witness ==
    PolledStep /\ dis = MAX_GOOD_DISTANCE /\ cmds = <<"move_forward">>

\* C4: after start(), as long as every reading is FAR_DISTANCE + 1 the
\* controller is in Forward and every step() issues advance() and nothing else.
C4_ClearPathStaysForward ==
    (running /\ all_clear) =>
        /\ state = "FORWARD"
        /\ op = "step" => (dis = FAR_DISTANCE + 1 /\ cmds = <<"move_forward">>)

C4_Witness ==
    /\ running /\ all_clear /\ op = "step"
    /\ poll_gap # NoGap
    /\ cmds = <<"move_forward">>

\* C5: a step() in Forward that reads the sentinel 0 issues stop() alone and
\* stays in Forward, and no step() without a valid sample issues advance(),
\* reverse() or rotate_left(): it issues stop() or nothing.
C5_NoBlindDriving ==
    /\ (PolledStep /\ dis = 0) =>
            cmds = <<"stop">> /\ state = "FORWARD" /\ pre_state = "FORWARD"
    /\ (op = "step" /\ dis \in {0, NoRead}) =>
            \A m \in Maneuvers : ~Issued(m)

C5_Witness ==
    /\ PolledStep /\ dis = 0 /\ poll_gap # NoGap
    /\ cmds = <<"stop">> /\ state = "FORWARD"

\* C6: the first sensor evaluation after start(), when it reads a valid sample
\* below NEAR_DISTANCE, moves the controller from Forward to BackingUp in that
\* same step().
FirstPoll == PolledStep /\ poll_gap = NoGap

C6_FirstNearSampleBacksUp ==
    (FirstPoll /\ dis > 0 /\ dis < NEAR_DISTANCE) =>
        pre_state = "FORWARD" /\ state = "BACKING_UP"

C6_Witness ==
    FirstPoll /\ dis = NEAR_DISTANCE - 1 /\ state = "BACKING_UP"

\* C7: a step() in BackingUp leaves the state BackingUp when the elapsed time
\* is below BACKUP_DURATION and returns to Forward when it is equal or above.
\* (The code tests elapsed > 0.5.)
C7_BackupEndsAtDuration ==
    StepFrom("BACKING_UP") =>
        state = IF Elapsed >= BACKUP_DURATION THEN "FORWARD" ELSE "BACKING_UP"

\* C8: a step() in Turning leaves the state Turning when the elapsed time is
\* below TURN_DURATION, and issues stop() and returns to Forward when it is
\* equal or above.  (The code tests elapsed > 0.4.)
C8_TurnEndsAtDuration ==
    StepFrom("TURNING") =>
        IF Elapsed >= TURN_DURATION
        THEN state = "FORWARD" /\ cmds = <<"stop">>
        ELSE state = "TURNING"

\* C9: on a valid sample d, a step() in Forward goes to BackingUp iff
\* d < NEAR_DISTANCE and to Turning iff NEAR_DISTANCE <= d <= FAR_DISTANCE,
\* and otherwise stays in Forward.
C9_ThresholdBoundaries ==
    (PolledStep /\ dis > 0) =>
        /\ state = "BACKING_UP" <=> dis < NEAR_DISTANCE
        /\ state = "TURNING" <=> (NEAR_DISTANCE <= dis /\ dis <= FAR_DISTANCE)
        /\ state = "FORWARD" <=> dis > FAR_DISTANCE

C9_Witness ==
    PolledStep /\ dis = NEAR_DISTANCE /\ state = "TURNING"

\* C10: a step() that leaves Forward for BackingUp issues stop() then
\* reverse(), one that leaves for Turning issues stop() then rotate_left(),
\* and both record the clock of that step() as the state's entry time.
C10_StopThenManeuver ==
    StepFrom("FORWARD") =>
        /\ state = "BACKING_UP" =>
              cmds = <<"stop", "move_backward">> /\ state_start_time = current_time
        /\ state = "TURNING" =>
              cmds = <<"stop", "rotate_left">> /\ state_start_time = current_time

C10_Witness ==
    /\ StepFrom("FORWARD") /\ state = "TURNING"
    /\ cmds = <<"stop", "rotate_left">>
    /\ poll_gap # NoGap
    /\ state_start_time = current_time

C12_StartFromIdle ==
    (op = "start" /\ pre_state = "IDLE") =>
        /\ speed = DEFAULT_SPEED /\ ultrasonic /\ running /\ state = "FORWARD"
        /\ cmds = <<"move_forward">>
        /\ Len(writes) = 4
        /\ \A i \in 1..4 :
              writes[i] = [id |-> i - 1, dir |-> 0, speed |-> DEFAULT_SPEED]

\* The first start(): the speed stored before it was INITIAL_SPEED.
C12_Witness ==
    /\ op = "start" /\ pre_state = "IDLE" /\ last_poll = NoRead
    /\ current_time = 0
    /\ INITIAL_SPEED # DEFAULT_SPEED
    /\ wheels[0] = [dir |-> 0, speed |-> DEFAULT_SPEED]

\* C13: no step() entered in BackingUp or Turning calls get_distance(), the
\* one that ends the dwell and returns to Forward included.
C13_EvasionIsSensorBlind ==
    (StepFrom("BACKING_UP") \/ StepFrom("TURNING")) => dis = NoRead

C13_Witness ==
    StepFrom("BACKING_UP") /\ state = "FORWARD" /\ dis = NoRead

(***************************************************************************)
(* Properties of get_distance().                                           *)
(***************************************************************************)
\* Both reads of the attempt returned a byte and the two bytes are not both 0.
Measured(a) ==
    /\ ~a.h.exc /\ ~a.l.exc
    /\ a.h.data # <<>> /\ a.l.data # <<>>
    /\ a.h.data[1] * 256 + a.l.data[1] # 0

GoodAttempts == {i \in 1..RETRIES : Measured(sonar.script[i])}

FirstGood == CHOOSE i \in GoodAttempts : \A j \in GoodAttempts : i <= j

Called == sonar.attempts > 0

\* C14: get_distance() returns high * 256 + low of the first of its three
\* attempts in which both reads succeed and the value is not 0, and 0 when
\* there is none; what it returns is 0 or in 1..65535.
C14_FirstMeasuredAttempt ==
    Called =>
        /\ GoodAttempts = {} => sonar.result = 0
        /\ GoodAttempts # {} =>
              /\ sonar.attempts = FirstGood
              /\ sonar.result = sonar.script[FirstGood].h.data[1] * 256
                                    + sonar.script[FirstGood].l.data[1]
        /\ sonar.result \in 0..65535

\* A zero reading, then a measurement.
C14_Witness ==
    /\ Called /\ sonar.attempts = 2
    /\ sonar.script[1] = Reads(0)
    /\ sonar.result = NEAR_DISTANCE - 1

\* C15: get_distance() ends after at most 3 attempts and 6 register reads,
\* lets no exception of a read out, and returns 0 exactly when none of the 3
\* attempts measured; an attempt whose low-byte read raised is retried like
\* one whose high-byte read raised.
C15_BoundedAndContained ==
    Called =>
        /\ sonar.attempts <= 3 /\ sonar.reads <= 6
        /\ ~sonar.raised
        /\ sonar.result = 0 <=> GoodAttempts = {}
        /\ \A i \in 1..sonar.attempts :
              (sonar.script[i].h.exc \/ sonar.script[i].l.exc) =>
                  \/ i < sonar.attempts
                  \/ i = RETRIES /\ sonar.result = 0

\* The low-byte read of the first attempt raised after the high byte was read.
C15_Witness ==
    /\ Called
    /\ ~sonar.script[1].h.exc /\ sonar.script[1].l.exc
    /\ sonar.attempts = 3 /\ sonar.reads = 6 /\ sonar.result = 0

(***************************************************************************)
(* Properties of the CarDriver speed and motor methods.                    *)
(***************************************************************************)
\* C16: no exception of a bus write leaves stop() or a maneuver.  (The motor
\* methods call Ctrl_Car without a handler.)
C16_WritesNeverRaise == ~raised

Clamped(v) == IF v < 0 THEN 0 ELSE IF v > 255 THEN 255 ELSE v

\* C17: the stored speed is within 0..255 and, after set_speed() or
\* change_speed(), is the requested value clamped to that range: -5 gives 0,
\* 9999 gives 255.
C17_SpeedClamped ==
    /\ speed \in 0..255
    /\ call \in {"set_speed", "change_speed"} =>
          /\ speed = Clamped(requested)
          /\ requested = 0 - 5 => speed = 0
          /\ requested = 9999 => speed = 255

C17_Witness ==
    call = "set_speed" /\ requested = 0 - 5 /\ speed = 0

\* Direction bits per wheel 0..3 as the claim lists them (1 is backward).
PatternOf(name) ==
    CASE name = "move_forward" -> <<0, 0, 0, 0>>
      [] name = "move_backward" -> <<1, 1, 1, 1>>
      [] name = "slide_left" -> <<1, 0, 0, 1>>
      [] name = "rotate_left" -> <<1, 1, 0, 0>>

\* C18: a maneuver makes four wheel commands, one per wheel 0..3 in order, all
\* at the stored speed, with the listed directions for advance, reverse,
\* slide_left and rotate_left.
C18_FourWheelPattern ==
    (call \in CarMethods \ {"stop"}) =>
        /\ Len(writes) = 4
        /\ \A i \in 1..4 : writes[i].id = i - 1 /\ writes[i].speed = speed
        /\ call \in {"move_forward", "move_backward", "slide_left", "rotate_left"} =>
              \A i \in 1..4 : writes[i].dir = PatternOf(call)[i]

C18_Witness ==
    /\ call = "slide_left" /\ prev_call = "change_speed"
    /\ speed = INITIAL_SPEED + 20
    /\ wheels[0] = [dir |-> 1, speed |-> speed]

\* The wheel on the other side of the car.
Opposite(i) == (i + 2) % 4

MirrorPair(a, b) ==
    \/ a = "rotate_left" /\ b = "rotate_right"
    \/ a = "rotate_right" /\ b = "rotate_left"
    \/ a = "slide_left" /\ b = "slide_right"
    \/ a = "slide_right" /\ b = "slide_left"

\* C19: rotate_right() after rotate_left() (and the reverse, and the two
\* slides likewise) turns every wheel the other way and gives each wheel the
\* direction the wheel on the other side had, at the same speed.
C19_MirrorImages ==
    [][MirrorPair(call, call') =>
          \A i \in 0..3 :
              /\ wheels'[i].dir = 1 - wheels[i].dir
              /\ wheels'[i].dir = wheels[Opposite(i)].dir
              /\ wheels'[i].speed = wheels[i].speed]_vars

C19_Witness ==
    /\ prev_call = "rotate_left" /\ call = "rotate_right"
    /\ speed > 0
    /\ wheels[0].dir = 0 /\ wheels[2].dir = 1

\* C20: CarDriver.stop() sets the four wheels to speed 0 and leaves the stored
\* speed as it was; a second stop() changes neither the wheels nor the speed.
C20_StopIdempotent ==
    [][call' = "stop" =>
          /\ Len(writes') = 4
          /\ \A i \in 0..3 : wheels'[i].speed = 0
          /\ speed' = speed
          /\ call = "stop" => (wheels' = wheels /\ writes' = writes)]_vars

C20_Witness ==
    /\ prev_call = "stop" /\ call = "stop"
    /\ speed # INITIAL_SPEED
    /\ wheels = Stopped

(***************************************************************************)
(* Properties of the driving loop and of IRRemote.                         *)
(***************************************************************************)
\* C21: while the mode is AUTO a key other than the toggle key causes no
\* CarDriver call (no maneuver, stop, speed change or light change), and
\* avoidance.step() is called only in an iteration whose mode is AUTO and that
\* dispatched no manual command.
C21_ModesExclusive ==
    [][/\ (loop_pc = "read" /\ mode = "AUTO" /\ key' # "Sound") =>
              /\ dispatched' = "none"
              /\ UNCHANGED <<speed, wheels, writes, call, prev_call, requested,
                             light_index, cmds>>
       /\ (loop_pc = "read") => current_time' = current_time /\ ~stepped'
       /\ (loop_pc = "auto" /\ (stepped' \/ current_time' # current_time)) =>
              mode = "AUTO" /\ dispatched = "none"]_vars

\* The Up key pressed in AUTO: ignored, and step() ran in that iteration.
C21_Witness ==
    /\ mode = "AUTO" /\ key = "Up" /\ dispatched = "none"
    /\ loop_pc = "read" /\ stepped /\ op = "step"

\* C29: read_code() lets no exception out; it returns None when the receiver
\* is disabled, when the register read raises or returns no data, and when the
\* byte is the idle value 255, and the byte read otherwise; disabled, it makes
\* no bus read.
C29_ReadCodeContained ==
    loop_count > 0 =>
        /\ ~ir_read.raised
        /\ (\/ ~ir_enabled
            \/ ir_read.answer.exc
            \/ ir_read.answer.data = <<>>
            \/ ir_read.answer.data[1] = 255) => ir_read.code = NoCode
        /\ (/\ ir_enabled
            /\ ~ir_read.answer.exc
            /\ ir_read.answer.data # <<>>
            /\ ir_read.answer.data[1] # 255) =>
                  ir_read.code = ir_read.answer.data[1] /\ ir_read.reads = 1
        /\ ~ir_enabled => ir_read.reads = 0

\* The register read raised.
C29_Witness ==
    /\ loop_count > 0 /\ ir_enabled
    /\ ir_read.answer = Raised /\ ir_read.reads = 1
    /\ ir_read.code = NoCode /\ key = "none"

(***************************************************************************)
(* Properties of one step() and of the controller as a whole.              *)
(***************************************************************************)
\* State before and after one step(): at most one transition of the machine.
OneTransition ==
    {<<"IDLE", "IDLE">>, <<"FORWARD", "FORWARD">>, <<"FORWARD", "BACKING_UP">>,
     <<"FORWARD", "TURNING">>, <<"BACKING_UP", "BACKING_UP">>,
     <<"BACKING_UP", "FORWARD">>, <<"TURNING", "TURNING">>,
     <<"TURNING", "FORWARD">>}

\* C22: one step() makes at most one transition and reads the sensor at most
\* once, in Forward only; it does not wait for a dwell: entered before the
\* dwell is over it returns in the same state without any bus operation, and
\* the step() that ends a dwell only stops and does not go on to evaluate
\* Forward.
C22_OneEvaluationPerStep ==
    op = "step" =>
        /\ <<pre_state, state>> \in OneTransition
        /\ dis # NoRead => pre_state = "FORWARD"
        /\ (pre_state = "FORWARD" /\ state # "FORWARD") =>
              state_start_time = current_time
        /\ (pre_state \in {"BACKING_UP", "TURNING"} /\ state # pre_state) =>
              cmds = <<"stop">> /\ dis = NoRead
        /\ (pre_state = "BACKING_UP" /\ Elapsed < BACKUP_DURATION) =>
              /\ state = "BACKING_UP"
              /\ dis = NoRead /\ cmds = <<>> /\ writes = <<>>
        /\ (pre_state = "TURNING" /\ Elapsed < TURN_DURATION) =>
              /\ state = "TURNING"
              /\ dis = NoRead /\ cmds = <<>> /\ writes = <<>>

\* A step() in the middle of the turning dwell.
C22_Witness ==
    /\ StepFrom("TURNING") /\ state = "TURNING"
    /\ Elapsed > 0 /\ Elapsed < TURN_DURATION
    /\ writes = <<>> /\ dis = NoRead

\* C23: the controller state is always one of IDLE, FORWARD, BACKING_UP and
\* TURNING, and it is IDLE after construction and as long as start() has not
\* run (which is as long as the speed is the one the driver was built with).
C23_FourStatesIdleFirst ==
    /\ state \in {"IDLE", "FORWARD", "BACKING_UP", "TURNING"}
    /\ op = "init" => state = "IDLE"
    /\ speed = INITIAL_SPEED => state = "IDLE"

\* step() and stop() called before the first start().
C23_Witness ==
    /\ op = "step" /\ current_time > 0 /\ pre_state = "IDLE"
    /\ speed = INITIAL_SPEED /\ ~ultrasonic
    /\ state = "IDLE"

\* C24: step() and stop() leave the stored speed as it is; the reverse() and
\* rotate_left() of an evasion are written at DEFAULT_SPEED, and the speed is
\* DEFAULT_SPEED after a running controller is stopped.
C24_SpeedOnlyByStart ==
    [][/\ op' \in {"step", "stop"} => speed' = speed
       /\ (op' = "step" /\ state = "FORWARD" /\ state' \in {"BACKING_UP", "TURNING"}) =>
              /\ Len(writes') = 8
              /\ \A i \in 5..8 : writes'[i].speed = DEFAULT_SPEED
       /\ (op' = "stop" /\ running) => speed' = DEFAULT_SPEED]_vars

\* stop() called in the middle of a turn.
C24_Witness ==
    /\ op = "stop" /\ pre_state = "TURNING" /\ state = "IDLE"
    /\ speed = DEFAULT_SPEED
    /\ wheels = Stopped

\* C26: the controller keeps the most recent valid samples, at most
\* HISTORY_SIZE of them, never an invalid one, and none right after a change
\* of state.  (The code keeps no sample at all.)
C26_HistoryKept ==
    /\ Len(DistanceHistory) <= HISTORY_SIZE
    /\ (op = "step" /\ state # pre_state) => DistanceHistory = <<>>
    /\ (PolledStep /\ ~BadReading(dis) /\ state = pre_state) =>
          /\ DistanceHistory # <<>>
          /\ DistanceHistory[Len(DistanceHistory)] = dis

(***************************************************************************)
(* Properties of the dwell timers.                                         *)
(***************************************************************************)
\* Time that really passed since the dwell was entered.
TrueElapsed == mono_time - mono_since

\* C27: whatever is done to the wall clock, a step() entered in BackingUp or
\* Turning ends the dwell exactly when more than its duration has really
\* passed: the dwell is neither kept beyond the first step() after its
\* duration nor ended before it.  (step() reads time.time(), the wall clock.)
C27_DwellOnMonotonicClock ==
    /\ StepFrom("BACKING_UP") =>
          (state = "FORWARD" <=> TrueElapsed > BACKUP_DURATION)
    /\ StepFrom("TURNING") =>
          (state = "FORWARD" <=> TrueElapsed > TURN_DURATION)

\* No further step() can be made within the clock of the model.
ClockExhausted == \A delta \in Deltas : current_time + delta > MaxClock

\* The dwell of the current state is over on the clock of the latest step().
DwellOver ==
    \/ state = "BACKING_UP" /\ Elapsed > BACKUP_DURATION
    \/ state = "TURNING" /\ Elapsed > TURN_DURATION

\* C28: with step() called again and again, a controller in BackingUp or
\* Turning eventually is in Forward (or in Idle, if stop() was called); it is
\* still in the evasive state at the end of the model's clock only if the
\* dwell is not over by then.  An evasive state is left for Forward or Idle
\* only.
C28_EvasionIsTimeBoxed ==
    /\ (state \in Evasive) ~>
          (state \in {"FORWARD", "IDLE"} \/ (ClockExhausted /\ ~DwellOver))
    /\ [][(state \in Evasive) => (state' \in {state, "FORWARD", "IDLE"})]_vars

\* The step() that ends a turn.
C28_Witness ==
    /\ StepFrom("TURNING") /\ state = "FORWARD"
    /\ Elapsed > TURN_DURATION /\ running
    /\ cmds = <<"stop">>

(***************************************************************************)
(* Properties of CameraController.                                         *)
(***************************************************************************)
\* The capture thread, the caller of read_frame(), is inside "with frame_lock".
CaptureInside == cam.capture \in {"store", "count", "release"}
ReaderInside == cam.reader \in {"copy", "release"}

\* C30: the capture thread's write of current_frame and frame_count and a
\* read_frame() are never inside the frame_lock section together, and what
\* read_frame() returns is None (nothing captured yet) or a copy, in a buffer
\* of its own, of a frame stored together with its count.
C30_FrameAccessExclusive ==
    /\ ~(CaptureInside /\ ReaderInside)
    /\ CaptureInside => cam.lock = "capture"
    /\ ReaderInside => cam.lock = "reader"
    /\ cam.reader = "release" =>
          \/ cam.returned = NoFrame /\ cam.frame_count = 0
          \/ /\ cam.returned.buf = "copy"
             /\ cam.returned.pixels = cam.current_frame.pixels
             /\ cam.returned.pixels = cam.frame_count

\* read_frame() copied the second frame while the capture thread waits for
\* the lock with the third.
C30_Witness ==
    /\ cam.reader = "release" /\ cam.capture = "acquire"
    /\ cam.frame_count = 2
    /\ cam.returned = [buf |-> "copy", pixels |-> 2]

(***************************************************************************)
(* Properties of the controller's motor commands and of its flags.         *)
(***************************************************************************)
\* The transition is a step() that issues advance().
AdvanceIssued ==
    op' = "step" /\ \E i \in 1..Len(cmds') : cmds'[i] = "move_forward"

\* The transition is a step() that returns from a dwell state to Forward.
DwellEnds == op' = "step" /\ state \in Evasive /\ state' = "FORWARD"

\* The transition is a step() that sets in motion a robot standing still in
\* Forward, where the end of a dwell (or an unusable reading) left it.
LeavesRest ==
    /\ op' = "step"
    /\ running /\ state = "FORWARD" /\ wheels = Stopped
    /\ wheels' # Stopped

\* The step() that ends a dwell issues stop() alone, and step() issues
\* advance() only after a sensor read of its own.
DwellEndsStopped ==
    /\ DwellEnds => (cmds' = <<"stop">> /\ wheels' = Stopped /\ dis' = NoRead)
    /\ AdvanceIssued => dis' # NoRead

\* C31 as stated: the step() that ends a dwell issues stop() and nothing else,
\* step() never issues advance() without a sensor read of its own, and the
\* robot left standing in Forward is set in motion by a step() only when that
\* step() evaluates a valid sample above FAR_DISTANCE.
C31_StaysStoppedUntilClear ==
    [][/\ DwellEndsStopped
       /\ LeavesRest => (dis' # NoRead /\ ~BadReading(dis') /\ dis' > FAR_DISTANCE)
      ]_vars

\* C31 amended: the step() that ends a dwell issues stop() and nothing else,
\* step() never issues advance() without a sensor read of its own, and the
\* robot left standing in Forward is set in motion by a step() only when that
\* step() evaluates a valid sample: it advances exactly when the sample is
\* above FAR_DISTANCE, and reverses or rotates when it is at or below.
C31_StaysStoppedUntilValidSample ==
    [][/\ DwellEndsStopped
       /\ LeavesRest =>
            /\ dis' # NoRead /\ ~BadReading(dis')
            /\ AdvanceIssued <=> dis' > FAR_DISTANCE
            /\ ~AdvanceIssued => state' \in Evasive
      ]_vars

\* A dwell has ended with stop(), and the next step() backed away at once from
\* a near sample.
C31_Witness ==
    /\ StepFrom("FORWARD") /\ state = "BACKING_UP"
    /\ wheels # Stopped
    /\ dis < NEAR_DISTANCE
    /\ poll_gap > BACKUP_DURATION

C35_IdleStepDoesNothing ==
    [][(op' = "step" /\ state = "IDLE") =>
          /\ dis' = NoRead
          /\ cmds' = <<>> /\ writes' = <<>>
          /\ UNCHANGED <<state, running, state_start_time, speed, wheels,
                         ultrasonic, last_poll>>
      ]_vars

\* A step() of a controller that was started, entered a dwell and was stopped.
C35_Witness ==
    /\ StepFrom("IDLE") /\ state = "IDLE"
    /\ speed = DEFAULT_SPEED
    /\ state_start_time > 0
    /\ cmds = <<>>

\* The motor calls the controller makes.
ControllerCalls == {"stop", "move_forward", "move_backward", "rotate_left"}

\* C36: every motor command of start(), stop() and step() is stop, advance,
\* reverse or rotate_left, the bus writes are those of these commands, the
\* speed is only ever set (to DEFAULT_SPEED) and the lights are never touched.
C36_OnlyFourCommands ==
    /\ \A i \in 1..Len(cmds) : cmds[i] \in ControllerCalls
    /\ Len(writes) % 4 = 0
    /\ \A g \in 0..((Len(writes) \div 4) - 1) :
            [i \in 1..4 |-> writes[(4 * g) + i].dir]
                \in {<<0, 0, 0, 0>>, <<1, 1, 1, 1>>, <<1, 1, 0, 0>>}
    /\ speed \in {INITIAL_SPEED, DEFAULT_SPEED}
    /\ light_index = LightsOff
    /\ call = "init"

\* A step() in Forward answered a sample between the thresholds by stop() and
\* rotate_left().
C36_Witness ==
    /\ StepFrom("FORWARD") /\ cmds = <<"stop", "rotate_left">>
    /\ wheels[0].dir = 1 /\ wheels[2].dir = 0
    /\ speed = DEFAULT_SPEED

(***************************************************************************)
(* Properties of the mode toggle and of leaving the loop.                  *)
(***************************************************************************)
\* The transition is an iteration of the loop that read the toggle key.
ToggleHandled == loop_pc = "read" /\ loop_count' = loop_count + 1 /\ key' = "Sound"

\* C32: an iteration that reads the toggle key changes the mode in either
\* mode: from MANUAL it sets AUTO and calls controller.start(), from AUTO it
\* sets MANUAL and calls controller.stop(); it calls no step(), lets no time
\* of the controller pass, dispatches no command and goes back to the top of
\* the loop.
C32_ToggleAlternates ==
    [][ToggleHandled =>
          /\ mode' # mode
          /\ mode = "MANUAL" =>
                (mode' = "AUTO" /\ op' = "start" /\ running' /\ state' = "FORWARD")
          /\ mode = "AUTO" =>
                (mode' = "MANUAL" /\ op' = "stop" /\ ~running' /\ state' = "IDLE")
          /\ ~stepped'
          /\ dispatched' = "none"
          /\ loop_pc' = "read"
          /\ UNCHANGED <<current_time, call_vars, light_index>>
      ]_vars

\* The key was read in two iterations running: AUTO, then MANUAL again.
C32_Witness ==
    /\ key = "Sound" /\ mode = "MANUAL"
    /\ loop_count = 2
    /\ op = "stop" /\ pre_state = "FORWARD"

\* C34: wherever the loop reads the mode flag, the mode is AUTO exactly when
\* the controller is running, which is exactly when its state is not Idle;
\* the controller is Idle in every iteration that dispatched a manual command.
C34_ModeMirrorsController ==
    /\ (mode = "AUTO") <=> running
    /\ running <=> state # "IDLE"
    /\ dispatched # "none" => (mode = "MANUAL" /\ state = "IDLE" /\ ~running)

\* A manual advance dispatched after an autonomous episode, at the speed
\* start() has set.
C34_Witness ==
    /\ dispatched = "move_forward" /\ mode = "MANUAL"
    /\ state = "IDLE"
    /\ speed = DEFAULT_SPEED
    /\ wheels[0].speed = DEFAULT_SPEED

\* C37: once the loop is left and the finally block is over, all four
\* cleanup calls have been made without an exception, the controller is Idle
\* and not running, the distance sensor is switched off, the last motor call
\* is stop with the four wheels stopped, and the lights are off.
C37_CleanupCompletes ==
    loop_pc = "exited" =>
        /\ ~raised
        /\ state = "IDLE" /\ ~running
        /\ ~ultrasonic
        /\ call = "stop" /\ wheels = Stopped
        /\ light_index = LightsOff

C39_OneCaptureThread ==
    /\ [](Cardinality(Live) <= 1)
    /\ [][Len(cam'.threads) > Len(cam.threads) => ~cam.running]_vars

====
